---- MODULE Spec2Model ----
(***************************************************************************)
(* SemanticSearch browser client (www.oldcai.com): configuration, search   *)
(* over XMLHttpRequest, result normalization, rendering and the debounced  *)
(* input binding, in its three source variants:                            *)
(*   "urlsync"  src/js/semantic-search-client.js lines 1-237               *)
(*   "inline"   src/js/semantic-search-client.js lines 239-413             *)
(*   "plain"    src/unnamed/part_000                                       *)
(*                                                                         *)
(* A JavaScript string is a sequence of one-character strings, so that     *)
(* trim, length and substring are computed, not assumed.                   *)
(***************************************************************************)
EXTENDS Integers, Sequences, FiniteSets, TLC

\* ------------------------------------------------------------------------
\* Bounds of the model
\* ------------------------------------------------------------------------
\* requests that may be in flight at once
MaxInFlight == 1
\* the burst length counter saturates here
MaxBurst == 2
\* granularity of the passing of time, in ms
TickStep == 150
\* configure calls recorded in the configuration history
MaxConfigure == 2
\* requests in flight at once where responses may overtake one another
MaxOvertaking == 2

\* ------------------------------------------------------------------------
\* Program constants
\* ------------------------------------------------------------------------
DefaultMinLength == 2
DefaultDebounceMs == 300
DefaultLimit == 10
ExcerptMax == 100
StatusOkMin == 200
StatusOkEnd == 300

\* ------------------------------------------------------------------------
\* JavaScript values
\* ------------------------------------------------------------------------
\* undefined, in a slot that otherwise holds a string
Undefined == <<"undefined">>
EmptyStr == <<>>
Space == " "

\* truthiness of a string-or-undefined slot: undefined and "" are falsy
Truthy(s) == s # Undefined /\ s # EmptyStr

\* a || b on string-or-undefined slots
Or(a, b) == IF Truthy(a) THEN a ELSE b

\* a || d on a numeric option; 0 stands for both 0 and an absent option,
\* which || treats alike
NumOr(a, d) == IF a # 0 THEN a ELSE d

Min(a, b) == IF a <= b THEN a ELSE b

RECURSIVE TrimLeft(_)
TrimLeft(s) ==
  IF s # <<>> /\ Head(s) = Space THEN TrimLeft(Tail(s)) ELSE s

RECURSIVE TrimRight(_)
TrimRight(s) ==
  IF s # <<>> /\ s[Len(s)] = Space THEN TrimRight(SubSeq(s, 1, Len(s) - 1)) ELSE s

\* String.prototype.trim
Trim(s) == TrimRight(TrimLeft(s))

\* String.prototype.substring(0, n)
Substring0(s, n) == SubSeq(s, 1, Min(n, Len(s)))

\* ------------------------------------------------------------------------
\* Parsed JSON values and what search resolves to
\* ------------------------------------------------------------------------
\* A value: its kind, its elements (an array's items, a string's characters)
\* and, for an object, the kind and elements of its "results" property.
\* kind "malformed" stands for a response text JSON.parse throws on.
Val(kind, arr) == [kind |-> kind, arr |-> arr, rkind |-> "undefined", rarr |-> <<>>]

Obj(rkind, rarr) == [kind |-> "object", arr |-> <<>>, rkind |-> rkind, rarr |-> rarr]

EmptyList == Val("array", <<>>)

\* JavaScript truthiness of a value
ValTruthy(v) == v.kind \in {"true", "num", "str", "array", "object"}

\* response.results, for a response that is not null
ResultsOf(v) == IF v.kind = "object" THEN Val(v.rkind, v.rarr) ELSE Val("undefined", <<>>)

\* results.length: -1 stands for undefined, which no index is less than
LengthOf(v) == IF v.kind \in {"array", "str"} THEN Len(v.arr) ELSE 0 - 1

\* a settled or pending promise
Pending == [state |-> "pending", err |-> "none", status |-> 0, value |-> Val("undefined", <<>>)]

Resolved(v) == [state |-> "resolved", err |-> "none", status |-> 0, value |-> v]

Rejected(err, status) == [state |-> "rejected", err |-> err, status |-> status, value |-> Val("undefined", <<>>)]

\* a promise that every call of resolve or reject settles anew
SettleLast(p, o) == o

\* resolve and reject act on a pending promise only
Settle(p, o) == IF p.state = "pending" THEN o ELSE p

\* a pick that forgets the bare response: response.results || []
PickResultsOnly(response) ==
  IF ValTruthy(ResultsOf(response)) THEN ResultsOf(response) ELSE EmptyList

\* response.results || response || []
PickResults(response) ==
  IF ValTruthy(ResultsOf(response)) THEN ResultsOf(response)
  ELSE IF ValTruthy(response) THEN response
  ELSE EmptyList

\* the try block: JSON.parse throws on a malformed text, and reading
\* .results of null throws a TypeError; the catch rejects for both
TryParse(p, body) ==
  IF body.kind \in {"malformed", "null"}
  THEN Settle(p, Rejected("parse", 0))
  ELSE Settle(p, Resolved(PickResults(body)))

\* a success range that takes in its upper end
IsSuccessStatusInclusive(status) == status >= StatusOkMin /\ status <= StatusOkEnd

IsSuccessStatus(status) == status >= StatusOkMin /\ status < StatusOkEnd

\* xhr.onreadystatechange at readyState 4
OnReadyStateChange(p, status, body) ==
  IF IsSuccessStatus(status)
  THEN TryParse(p, body)
  ELSE Settle(p, Rejected("http", status))

\* xhr.onerror
OnError(p) == Settle(p, Rejected("network", 0))

\* a configure that assigns what it is given, supplied or not
ConfigureFieldAssign(supplied, current) == supplied

\* configure: options.endpoint || this.endpoint
ConfigureField(supplied, current) == Or(supplied, current)

\* ------------------------------------------------------------------------
\* Result items and their normalization
\* ------------------------------------------------------------------------
\* An item is null, a primitive (a number, a character of a string) or an
\* object.  An object that is absent has exists = FALSE; the operators
\* below read a field only where the code's guards let it.
Fields == {"title", "url", "excerpt"}

NoMeta == [exists |-> FALSE, title |-> Undefined, url |-> Undefined, excerpt |-> Undefined]

NoDoc == [exists |-> FALSE, metadata |-> NoMeta, title |-> Undefined, url |-> Undefined,
          excerpt |-> Undefined, id |-> Undefined]

NullItem == [kind |-> "null", document |-> NoDoc, metadata |-> NoMeta,
             title |-> Undefined, url |-> Undefined, excerpt |-> Undefined]

PrimItem == [kind |-> "prim", document |-> NoDoc, metadata |-> NoMeta,
             title |-> Undefined, url |-> Undefined, excerpt |-> Undefined]

Untitled == <<"U", "n", "t", "i", "t", "l", "e", "d">>
Hash == <<"#">>

DefaultOf(f) == IF f = "title" THEN Untitled ELSE IF f = "url" THEN Hash ELSE EmptyStr

\* item && item.document: only an object item has a document
HasDocument(item) == item.kind = "object" /\ item.document.exists

\* item && item.<f>
ItemField(item, f) == IF item.kind = "object" THEN item[f] ELSE Undefined

\* doc && doc.<f>, where doc = item && item.document ? item.document : item
DocField(item, f) == IF HasDocument(item) THEN item.document[f] ELSE ItemField(item, f)

\* doc && doc.metadata
DocMetadata(item) ==
  IF HasDocument(item) THEN item.document.metadata
  ELSE IF item.kind = "object" THEN item.metadata ELSE NoMeta

\* metadata = (doc && doc.metadata) ? doc.metadata
\*            : (item && item.metadata ? item.metadata : {})
\* an absent object and {} read alike: every field undefined
PickMetadata(item) ==
  IF DocMetadata(item).exists THEN DocMetadata(item)
  ELSE IF item.kind = "object" /\ item.metadata.exists THEN item.metadata
  ELSE NoMeta

\* a chain that reads the flat field first
NormalizeFieldFlatFirst(item, f) ==
  Or(ItemField(item, f), Or(DocField(item, f), Or(PickMetadata(item)[f], DefaultOf(f))))

\* (metadata && metadata.f) || (doc && doc.f) || (item && item.f) || default
NormalizeField(item, f) ==
  Or(PickMetadata(item)[f], Or(DocField(item, f), Or(ItemField(item, f), DefaultOf(f))))

\* _normalizeResult
NormalizeResult(item) ==
  [threw |-> FALSE,
   title |-> NormalizeField(item, "title"),
   url |-> NormalizeField(item, "url"),
   excerpt |-> NormalizeField(item, "excerpt")]

\* the inline variant: (item.document && item.document.metadata)
\*                     || item.metadata || {}
InlineMeta(item) ==
  IF item.document.exists /\ item.document.metadata.exists THEN item.document.metadata
  ELSE IF item.metadata.exists THEN item.metadata
  ELSE NoMeta

\* the inline variant's normalization; reading item.document of a null
\* item throws a TypeError
InlineNormalize(item) ==
  IF item.kind = "null"
  THEN [threw |-> TRUE, title |-> Undefined, url |-> Undefined, excerpt |-> Undefined]
  ELSE [threw |-> FALSE,
        title |-> Or(InlineMeta(item).title,
                     Or(IF item.document.exists THEN item.document.id ELSE Undefined,
                        Or(item.title, Untitled))),
        url |-> Or(InlineMeta(item).url, Or(item.url, Hash)),
        excerpt |-> Or(InlineMeta(item).excerpt, Or(item.excerpt, EmptyStr))]

\* the normalization a variant's _renderResults applies to an item
NormalizeIn(v, item) == IF v = "inline" THEN InlineNormalize(item) ELSE NormalizeResult(item)

\* ------------------------------------------------------------------------
\* Rendering
\* ------------------------------------------------------------------------
\* container.innerHTML, by the markup the code concatenates: nothing, the
\* error div, the no-results div with its text, or the list of <li>, each
\* with its link (href, text) and its excerpt paragraph (Undefined: none)
Ellipsis == <<".", ".", ".">>
NoResultsFound ==
  <<"N", "o", " ", "r", "e", "s", "u", "l", "t", "s", " ", "f", "o", "u", "n", "d">>

Html(kind, text, items) == [kind |-> kind, text |-> text, items |-> items]

EmptyHtml == Html("empty", EmptyStr, <<>>)
ErrorHtml == Html("error", EmptyStr, <<>>)

\* a truncation whose ellipsis starts at the limit itself
ShortExcerptAtLimit(excerpt) ==
  Substring0(excerpt, ExcerptMax) \o (IF Len(excerpt) >= ExcerptMax THEN Ellipsis ELSE <<>>)

\* excerpt.substring(0, 100) + (excerpt.length > 100 ? '...' : '')
ShortExcerpt(excerpt) ==
  Substring0(excerpt, ExcerptMax) \o (IF Len(excerpt) > ExcerptMax THEN Ellipsis ELSE <<>>)

\* the <p> of an item: normalized.excerpt && options.showExcerpt !== false
ExcerptParagraph(excerpt, showExcerpt) ==
  IF Truthy(excerpt) /\ showExcerpt # "false" THEN ShortExcerpt(excerpt) ELSE Undefined

RenderItem(n, o) ==
  [href |-> n.url, text |-> n.title, excerpt |-> ExcerptParagraph(n.excerpt, o.showExcerpt)]

\* _renderResults: the container it leaves, or threw when an item cannot be
\* read (the container is then left as it was)
RenderResults(v, c, results, o) ==
  IF ~ValTruthy(results) \/ LengthOf(results) = 0
  THEN [threw |-> FALSE,
        container |-> [html |-> Html("noresults", Or(o.noResultsText, NoResultsFound), <<>>),
                       display |-> "block"]]
  ELSE LET n == IF LengthOf(results) > 0 THEN LengthOf(results) ELSE 0
           norm == [i \in 1..n |-> NormalizeIn(v, results.arr[i])]
       IN IF \E i \in 1..n : norm[i].threw
          THEN [threw |-> TRUE, container |-> c]
          ELSE [threw |-> FALSE,
                container |-> [html |-> Html("list", EmptyStr, [i \in 1..n |-> RenderItem(norm[i], o)]),
                               display |-> "block"]]

\* ------------------------------------------------------------------------
\* State
\* ------------------------------------------------------------------------
VARIABLES
  variant,        \* which source variant of the client is loaded
  endpoint,       \* SemanticSearch.endpoint
  readerKey,      \* SemanticSearch.readerKey
  loadCfg,        \* window.SEMANTIC_SEARCH_CONFIG as read at load (history)
  cfgLog,         \* the options of the configure calls so far (history)
  bound,          \* bindSearchBox has attached its listeners
  opts,           \* the options bindSearchBox was called with
  inputValue,     \* input.value
  debounceTimer,  \* the handle bindSearchBox keeps; 0: undefined
  timers,         \* the browser's live timers: [id, query, remaining]
  sinceInput,     \* ms since the last input event, up to debounceMs (history)
  burstLen,       \* input events in the current burst, up to MaxBurst (history)
  burstCalls,     \* search calls timers made since the burst began (history)
  entered,        \* Enter ran a search since the last input event (history)
  xhrs,           \* requests in flight, oldest first
  container,      \* resultContainer: [html, display]
  urlQ,           \* the q parameter of window.location; Undefined: none
  historyLen,     \* window.history.length
  lastOp,         \* the handler that ran last and what it did (history)
  item,           \* the argument of the normalization under study
  normalized      \* what normalization returned for it

vars == <<variant, endpoint, readerKey, loadCfg, cfgLog, bound, opts, inputValue,
          debounceTimer, timers, sinceInput, burstLen, burstCalls, entered, xhrs,
          container,
          urlQ, historyLen, lastOp, item, normalized>>

configVars == <<endpoint, readerKey, loadCfg, cfgLog>>
bindVars == <<bound, opts>>
timerVars == <<debounceTimer, timers>>
burstVars == <<sinceInput, burstLen, burstCalls, entered>>
urlVars == <<urlQ, historyLen>>
pureVars == <<item, normalized>>

Variants == {"urlsync", "inline", "plain"}

NoOptions == [minLength |-> 0, debounce |-> 0, limit |-> 0,
              showExcerpt |-> "undefined", noResultsText |-> Undefined]

\* var minLength = options.minLength || 2
MinLength == NumOr(opts.minLength, DefaultMinLength)

\* var debounceMs = options.debounce || 300
DebounceMs == NumOr(opts.debounce, DefaultDebounceMs)

\* { limit: options.limit || 10 }
LimitOf(o) == NumOr(o.limit, DefaultLimit)

\* what the last handler did: its query, an id (of the timer that ran, of
\* the live timer an input event found, the limit of a direct search, or
\* for the transport how many of its callbacks settled the promise),
\* whether it opened a request, the promise it left, and for a completed
\* request the status and body it was served
OpR(op, query, id, opened, outcome, status, body) ==
  [op |-> op, query |-> query, id |-> id, opened |-> opened, outcome |-> outcome,
   status |-> status, body |-> body]

Op(op, query, id, opened, outcome) ==
  OpR(op, query, id, opened, outcome, 0, Val("undefined", <<>>))

FailedContainer == [html |-> ErrorHtml, display |-> "block"]

\* ------------------------------------------------------------------------
\* search
\* ------------------------------------------------------------------------
\* the request search opens and sends
Request(query, limit, origin) ==
  [query |-> query, limit |-> limit, origin |-> origin, endpoint |-> endpoint,
   auth |-> IF Truthy(readerKey) THEN readerKey ELSE Undefined]

\* an executor without the endpoint check
SearchCallUnchecked(query, o, origin) ==
  [promise |-> Pending, xhrs |-> Append(xhrs, Request(query, LimitOf(o), origin))]

\* the Promise executor of search: the promise as it stands when search
\* returns, and the requests then in flight
SearchCall(query, o, origin) ==
  IF ~Truthy(endpoint)
  THEN [promise |-> Rejected("config", 0), xhrs |-> xhrs]
  ELSE [promise |-> Pending, xhrs |-> Append(xhrs, Request(query, LimitOf(o), origin))]

\* .then(render) with no .catch: a rejection leaves the container as it was
AfterSettleUncaught(p, c, o) ==
  IF p.state = "resolved"
  THEN LET r == RenderResults(variant, c, p.value, o)
       IN IF r.threw THEN c ELSE r.container
  ELSE c

\* .then(render, failed): an exception thrown by the rendering is not caught
AfterSettleNoCatch(p, c, o) ==
  IF p.state = "resolved"
  THEN RenderResults(variant, c, p.value, o).container
  ELSE IF p.state = "rejected" THEN FailedContainer
  ELSE c

\* .then(render).catch(failed) on a settled promise of a binding's search
AfterSettle(p, c, o) ==
  IF p.state = "resolved"
  THEN LET r == RenderResults(variant, c, p.value, o)
       IN IF r.threw THEN FailedContainer ELSE r.container
  ELSE IF p.state = "rejected" THEN FailedContainer
  ELSE c

\* doSearch (and the timer callback of the variants without it): what
\* becomes of the requests and of the container
DoSearch(query, origin, o) ==
  LET s == SearchCall(query, [limit |-> LimitOf(o)], origin)
  IN /\ xhrs' = s.xhrs
     /\ container' = AfterSettle(s.promise, container, o)

\* the specifications hold at most MaxInFlight requests: a search that
\* would open one more waits
SearchRoom == Truthy(endpoint) => Len(xhrs) < MaxInFlight

RemoveAt(q, i) == SubSeq(q, 1, i - 1) \o SubSeq(q, i + 1, Len(q))


\* ------------------------------------------------------------------------
\* Timers
\* ------------------------------------------------------------------------
\* clearTimeout(handle): a handle of no live timer clears nothing
ClearTimeout(ts, handle) == {t \in ts : t.id # handle}

\* the id setTimeout returns: one no live timer and no kept handle carries
FreshId(ts, handle) ==
  LET used == {t.id : t \in ts} \cup {handle}
  IN CHOOSE i \in 1..(Cardinality(used) + 1) :
       i \notin used /\ \A j \in 1..(i - 1) : j \in used

\* a timer whose delay has elapsed; its callback runs before any later event
Due(ts) == {t \in ts : t.remaining = 0}

\* var query = input.value.trim()
InputQuery(v) == Trim(v)

\* a listener that schedules without clearing the previous timer
InputTimersNoClear(query) ==
  LET id == FreshId(timers, debounceTimer)
  IN IF Len(query) < MinLength
     THEN [timers |-> timers, handle |-> debounceTimer]
     ELSE [timers |-> timers \cup {[id |-> id, query |-> query, remaining |-> DebounceMs]},
           handle |-> id]

\* a listener that schedules the new timer without keeping its handle
InputTimersKeepHandle(query) ==
  LET cleared == ClearTimeout(timers, debounceTimer)
      id == FreshId(cleared, debounceTimer)
  IN IF Len(query) < MinLength
     THEN [timers |-> cleared, handle |-> debounceTimer]
     ELSE [timers |-> cleared \cup {[id |-> id, query |-> query, remaining |-> DebounceMs]},
           handle |-> debounceTimer]

\* a listener that returns on a short query before it clears the timer
InputTimersReturnFirst(query) ==
  LET cleared == ClearTimeout(timers, debounceTimer)
      id == FreshId(cleared, debounceTimer)
  IN IF Len(query) < MinLength
     THEN [timers |-> timers, handle |-> debounceTimer]
     ELSE [timers |-> cleared \cup {[id |-> id, query |-> query, remaining |-> DebounceMs]},
           handle |-> id]

\* the input listener's handling of the timer: clearTimeout(debounceTimer),
\* then, unless the query is too short, debounceTimer = setTimeout(...)
InputTimers(query) ==
  LET cleared == ClearTimeout(timers, debounceTimer)
      id == FreshId(cleared, debounceTimer)
  IN IF Len(query) < MinLength
     THEN [timers |-> cleared, handle |-> debounceTimer]
     ELSE [timers |-> cleared \cup {[id |-> id, query |-> query, remaining |-> DebounceMs]},
           handle |-> id]

\* the input listener's handling of the container
InputContainer(query) ==
  IF Len(query) < MinLength
  THEN [html |-> EmptyHtml, display |-> "none"]
  ELSE container

\* ------------------------------------------------------------------------
\* bindSearchBox and its listeners
\* ------------------------------------------------------------------------
\* a _getQueryFromUrl that trims what it reads
GetQueryFromUrlTrimmed == Trim(Or(urlQ, EmptyStr))

\* _getQueryFromUrl: url.searchParams.get('q') || ''
GetQueryFromUrl == Or(urlQ, EmptyStr)

\* an _updateUrl that writes the URL with pushState
UpdateUrlPush(query) ==
  /\ urlQ' = IF Truthy(query) THEN query ELSE Undefined
  /\ historyLen' = historyLen + 1

\* _updateUrl: set q, or delete it for an empty query; replaceState adds no
\* history entry
UpdateUrl(query) ==
  /\ urlQ' = IF Truthy(query) THEN query ELSE Undefined
  /\ historyLen' = historyLen

\* bindSearchBox(input, container, o); found: both elements exist
BindSearchBox(o, found) ==
  /\ ~bound
  /\ IF ~found
     THEN /\ lastOp' = Op("bindwarn", EmptyStr, 0, FALSE, Pending)
          /\ UNCHANGED <<bound, opts, inputValue, xhrs, container>>
     ELSE /\ bound' = TRUE
          /\ opts' = o
          /\ IF variant = "urlsync" /\ Truthy(GetQueryFromUrl)
             THEN /\ inputValue' = GetQueryFromUrl
                  /\ IF Len(GetQueryFromUrl) >= NumOr(o.minLength, DefaultMinLength)
                     THEN /\ DoSearch(GetQueryFromUrl, "init", o)
                          /\ lastOp' = Op("bind", GetQueryFromUrl, 0, xhrs' # xhrs,
                                          SearchCall(GetQueryFromUrl, o, "init").promise)
                     ELSE /\ UNCHANGED <<xhrs, container>>
                          /\ lastOp' = Op("bind", EmptyStr, 0, FALSE, Pending)
             ELSE /\ UNCHANGED <<inputValue, xhrs, container>>
                  /\ lastOp' = Op("bind", EmptyStr, 0, FALSE, Pending)
  /\ UNCHANGED <<variant, configVars, timerVars, burstVars, urlVars, pureVars>>

\* the input listener, for the event that leaves v in the input
InputEvent(v) ==
  /\ bound
  /\ Due(timers) = {}
  /\ LET query == InputQuery(v)
         continuing == burstLen > 0 /\ sinceInput < DebounceMs
         live == {t.id : t \in timers} \cap {debounceTimer}
     IN /\ inputValue' = v
        /\ timers' = InputTimers(query).timers
        /\ debounceTimer' = InputTimers(query).handle
        /\ container' = InputContainer(query)
        /\ sinceInput' = 0
        /\ burstLen' = IF continuing THEN Min(burstLen + 1, MaxBurst) ELSE 1
        /\ burstCalls' = IF continuing THEN burstCalls ELSE 0
        /\ entered' = FALSE
        /\ lastOp' = Op("input", query, IF live = {} THEN 0 ELSE debounceTimer, FALSE, Pending)
  /\ UNCHANGED <<variant, configVars, bindVars, xhrs, urlVars, pureVars>>

\* the callback of a timer whose delay has elapsed
TimerFire ==
  /\ \E t \in Due(timers) :
       /\ timers' = timers \ {t}
       /\ DoSearch(t.query, "timer", opts)
       /\ burstCalls' = Min(burstCalls + 1, MaxBurst)
       /\ lastOp' = Op("timer", t.query, t.id, xhrs' # xhrs,
                       SearchCall(t.query, opts, "timer").promise)
  /\ UNCHANGED <<variant, configVars, bindVars, inputValue, debounceTimer, sinceInput,
                 burstLen, entered, urlVars, pureVars>>

\* time passes, by no more than the earliest live timer allows
Tick ==
  /\ bound
  /\ burstLen > 0
  /\ LET room == IF timers # {}
                 THEN CHOOSE r \in {t.remaining : t \in timers} :
                        \A t \in timers : r <= t.remaining
                 ELSE DebounceMs - sinceInput
     IN /\ room > 0
        /\ \E d \in {Min(TickStep, room), room} :
             /\ timers' = {[t EXCEPT !.remaining = t.remaining - d] : t \in timers}
             /\ sinceInput' = Min(sinceInput + d, DebounceMs)
  /\ UNCHANGED <<variant, configVars, bindVars, inputValue, debounceTimer, burstLen,
                 burstCalls, entered, xhrs, container, urlVars, lastOp, pureVars>>

\* a keydown listener that leaves the pending timer alone
KeydownEnterNoClear ==
  /\ bound
  /\ variant = "urlsync"
  /\ Due(timers) = {}
  /\ LET query == Trim(inputValue)
     IN IF Len(query) >= MinLength
        THEN /\ timers' = timers
             /\ UpdateUrl(query)
             /\ DoSearch(query, "enter", opts)
             /\ entered' = TRUE
             /\ lastOp' = Op("enter", query, 0, xhrs' # xhrs,
                             SearchCall(query, opts, "enter").promise)
        ELSE /\ UNCHANGED <<timers, urlVars, xhrs, container, entered>>
             /\ lastOp' = Op("enterShort", query, 0, FALSE, Pending)
  /\ UNCHANGED <<variant, configVars, bindVars, inputValue, debounceTimer, sinceInput,
                 burstLen, burstCalls, pureVars>>

\* the keydown listener of the URL-sync variant, for the Enter key
KeydownEnter ==
  /\ bound
  /\ variant = "urlsync"
  /\ Due(timers) = {}
  /\ LET query == Trim(inputValue)
     IN IF Len(query) >= MinLength
        THEN /\ timers' = ClearTimeout(timers, debounceTimer)
             /\ UpdateUrl(query)
             /\ DoSearch(query, "enter", opts)
             /\ entered' = TRUE
             /\ lastOp' = Op("enter", query, 0, xhrs' # xhrs,
                             SearchCall(query, opts, "enter").promise)
        ELSE /\ UNCHANGED <<timers, urlVars, xhrs, container, entered>>
             /\ lastOp' = Op("enterShort", query, 0, FALSE, Pending)
  /\ UNCHANGED <<variant, configVars, bindVars, inputValue, debounceTimer, sinceInput,
                 burstLen, burstCalls, pureVars>>

\* the document click listener; outside: the target is in neither element
DocumentClick(outside) ==
  /\ bound
  /\ container' = IF outside THEN [container EXCEPT !.display = "none"] ELSE container
  /\ lastOp' = IF outside THEN Op("click", EmptyStr, 0, FALSE, Pending) ELSE lastOp
  /\ UNCHANGED <<variant, configVars, bindVars, inputValue, timerVars, burstVars, xhrs,
                 urlVars, pureVars>>

\* ------------------------------------------------------------------------
\* The transport
\* ------------------------------------------------------------------------
\* how often a callback settled the promise: 1 when it changed it
Settlements(before, after) == IF after # before THEN 1 ELSE 0

\* the container after a callback: the .then / .catch handlers run when the
\* callback settled the promise, and not otherwise
AfterCallback(before, after, c, o) ==
  IF after # before THEN AfterSettle(after, c, o) ELSE c

\* a completion that writes the container only when the request's query is
\* still the one the input holds
CompleteGuarded(i, status, body) ==
  /\ i \in 1..Len(xhrs)
  /\ LET p == OnReadyStateChange(Pending, status, body)
     IN /\ xhrs' = RemoveAt(xhrs, i)
        /\ container' = IF xhrs[i].origin = "api" \/ xhrs[i].query # Trim(inputValue)
                        THEN container
                        ELSE AfterSettle(p, container, opts)
        /\ lastOp' = OpR("complete", xhrs[i].query, Settlements(Pending, p), FALSE, p, status, body)
  /\ UNCHANGED <<variant, configVars, bindVars, inputValue, timerVars, burstVars,
                 urlVars, pureVars>>

\* request i completes with a response: readyState 4
Complete(i, status, body) ==
  /\ i \in 1..Len(xhrs)
  /\ LET p == OnReadyStateChange(Pending, status, body)
     IN /\ xhrs' = RemoveAt(xhrs, i)
        /\ container' = IF xhrs[i].origin = "api" THEN container
                        ELSE AfterSettle(p, container, opts)
        /\ lastOp' = OpR("complete", xhrs[i].query, Settlements(Pending, p), FALSE, p, status, body)
  /\ UNCHANGED <<variant, configVars, bindVars, inputValue, timerVars, burstVars,
                 urlVars, pureVars>>

\* request i fails in the transport: readyState 4 with status 0 and an
\* empty response text, and the error event; the XMLHttpRequest standard
\* fires readystatechange first, errorFirst is the other order
NetworkFail(i, errorFirst) ==
  /\ i \in 1..Len(xhrs)
  /\ LET p1 == IF errorFirst
               THEN OnError(Pending)
               ELSE OnReadyStateChange(Pending, 0, Val("estr", <<>>))
         p2 == IF errorFirst
               THEN OnReadyStateChange(p1, 0, Val("estr", <<>>))
               ELSE OnError(p1)
         c1 == AfterCallback(Pending, p1, container, opts)
     IN /\ xhrs' = RemoveAt(xhrs, i)
        /\ container' = IF xhrs[i].origin = "api" THEN container
                        ELSE AfterCallback(p1, p2, c1, opts)
        /\ lastOp' = Op("neterror", xhrs[i].query,
                        Settlements(Pending, p1) + Settlements(p1, p2), FALSE, p2)
  /\ UNCHANGED <<variant, configVars, bindVars, inputValue, timerVars, burstVars,
                 urlVars, pureVars>>

\* ------------------------------------------------------------------------
\* The binding: the client as loaded, then bound to an input
\* ------------------------------------------------------------------------
\* the values an input event may leave in the input: empty, blank, one and
\* two characters, with and without spaces around them
InputValues ==
  {EmptyStr, <<Space>>, <<"a">>, <<Space, "a">>, <<"a", "a">>, <<Space, "a", "a", Space>>}

Meta(title, url, excerpt) == [exists |-> TRUE, title |-> title, url |-> url, excerpt |-> excerpt]

\* { document: { id, metadata: { title, url, excerpt } } }
NestedItem ==
  [kind |-> "object",
   document |-> [exists |-> TRUE, metadata |-> Meta(<<"T">>, <<"u">>, <<"x">>),
                 title |-> Undefined, url |-> Undefined, excerpt |-> Undefined, id |-> <<"i">>],
   metadata |-> NoMeta, title |-> Undefined, url |-> Undefined, excerpt |-> Undefined]

\* the responses a bound search box is served
BindBodies == {Obj("array", <<NestedItem>>), Val("array", <<>>)}

BindStatuses == {200, 404}

\* the options bindSearchBox is called with
BindOptions == {NoOptions, [NoOptions EXCEPT !.minLength = 1, !.debounce = 200]}

UrlQueries == {Undefined, <<"a">>, <<"a", "a", Space>>}

BindVariants == {"urlsync", "plain"}

NoOp == Op("load", EmptyStr, 0, FALSE, Pending)

NotNormalized == [threw |-> FALSE, title |-> Undefined, url |-> Undefined, excerpt |-> Undefined]

\* no normalization is under study, and no options are given yet
InitPure ==
  /\ opts = NoOptions
  /\ item = NullItem
  /\ normalized = NotNormalized

InitCommon ==
  /\ cfgLog = <<>>
  /\ loadCfg = [endpoint |-> endpoint, readerKey |-> readerKey]
  /\ bound = FALSE
  /\ inputValue = EmptyStr
  /\ debounceTimer = 0
  /\ timers = {}
  /\ sinceInput = 0
  /\ burstLen = 0
  /\ burstCalls = 0
  /\ entered = FALSE
  /\ xhrs = <<>>
  /\ container = [html |-> EmptyHtml, display |-> ""]
  /\ historyLen = 1
  /\ lastOp = NoOp

Init ==
  /\ InitPure
  /\ variant \in BindVariants
  /\ endpoint \in {Undefined, <<"e">>}
  /\ readerKey = Undefined
  /\ urlQ \in (IF variant = "urlsync" THEN UrlQueries ELSE {Undefined})
  /\ InitCommon

Next ==
  \/ \E o \in BindOptions, found \in BOOLEAN : BindSearchBox(o, found)
  \/ \E v \in InputValues : InputEvent(v)
  \/ SearchRoom /\ TimerFire
  \/ Tick
  \/ SearchRoom /\ KeydownEnter
  \/ \E outside \in BOOLEAN : DocumentClick(outside)
  \/ \E i \in 1..MaxInFlight, status \in BindStatuses, body \in BindBodies :
       Complete(i, status, body)
  \/ \E i \in 1..MaxInFlight, errorFirst \in BOOLEAN : NetworkFail(i, errorFirst)

Spec == Init /\ [][Next]_vars

\* ------------------------------------------------------------------------
\* The binding with an event loop that runs due timers, a clock that
\* advances and a transport that answers
\* ------------------------------------------------------------------------
\* a value too short for the default minLength, and two that qualify
LiveInputValues == {<<"a">>, <<"a", "a">>, <<Space, "b", "b">>}

InitLive ==
  /\ InitPure
  /\ variant \in BindVariants
  /\ endpoint \in {Undefined, <<"e">>}
  /\ readerKey = Undefined
  /\ urlQ = Undefined
  /\ InitCommon

\* an input event
InputStep == \E v \in LiveInputValues : InputEvent(v)

\* a due timer's callback
TimerStep == SearchRoom /\ TimerFire

\* the responses served here: an empty list and a bare number, which
\* render as the no-results message and as a list without items
LiveBodies == {Val("array", <<>>), Val("num", <<>>)}

\* the transport settles a request, with a response or a failure
TransportStep ==
  \/ \E i \in 1..MaxInFlight, status \in BindStatuses, body \in LiveBodies :
       Complete(i, status, body)
  \/ \E i \in 1..MaxInFlight, errorFirst \in BOOLEAN : NetworkFail(i, errorFirst)

NextLive ==
  \/ BindSearchBox(NoOptions, TRUE)
  \/ InputStep
  \/ TimerStep
  \/ Tick
  \/ SearchRoom /\ KeydownEnter
  \/ \E outside \in BOOLEAN : DocumentClick(outside)
  \/ TransportStep

SpecLive ==
  /\ InitLive
  /\ [][NextLive]_vars
  /\ WF_vars(TimerStep)
  /\ WF_vars(Tick)
  /\ WF_vars(TransportStep)

\* ------------------------------------------------------------------------
\* The client called directly: search, and the transport's answers
\* ------------------------------------------------------------------------
\* SemanticSearch.search(query, o), called by the page
ApiSearch(query, o) ==
  /\ LET s == SearchCall(query, o, "api")
     IN /\ xhrs' = s.xhrs
        /\ lastOp' = Op("search", query, LimitOf(o), s.xhrs # xhrs, s.promise)
  /\ UNCHANGED <<variant, configVars, bindVars, inputValue, timerVars, burstVars,
                 container, urlVars, pureVars>>

ApiQueries == {EmptyStr, <<"a">>}

ApiOptions == {[limit |-> 0], [limit |-> 5]}

SearchStatuses == {199, 200, 204, 299, 300, 404, 500}

\* response texts: malformed, and every shape of parsed JSON the code tells
\* apart
SearchBodies ==
  {Val("malformed", <<>>), Val("null", <<>>), Val("false", <<>>), Val("true", <<>>),
   Val("zero", <<>>), Val("num", <<>>), Val("estr", <<>>), Val("str", <<PrimItem>>),
   Val("array", <<>>), Val("array", <<NestedItem>>), Val("array", <<NestedItem, NullItem>>),
   Obj("undefined", <<>>), Obj("null", <<>>), Obj("zero", <<>>), Obj("estr", <<>>),
   Obj("false", <<>>), Obj("array", <<>>), Obj("array", <<NestedItem>>),
   Obj("str", <<PrimItem>>), Obj("object", <<>>), Obj("num", <<>>)}

InitSearch ==
  /\ InitPure
  /\ variant = "plain"
  /\ endpoint \in {Undefined, EmptyStr, <<"e">>}
  /\ readerKey \in {Undefined, EmptyStr, <<"k">>}
  /\ urlQ = Undefined
  /\ InitCommon

NextSearch ==
  \/ \E q \in ApiQueries, o \in ApiOptions : SearchRoom /\ ApiSearch(q, o)
  \/ \E i \in 1..MaxInFlight, status \in SearchStatuses, body \in SearchBodies :
       Complete(i, status, body)
  \/ \E i \in 1..MaxInFlight, errorFirst \in BOOLEAN : NetworkFail(i, errorFirst)

SpecSearch == InitSearch /\ [][NextSearch]_vars

\* ------------------------------------------------------------------------
\* The binding under every kind of failure, in all three variants
\* ------------------------------------------------------------------------
FailInputValues == {<<"a">>, <<"a", "a">>}

\* response texts: malformed, a list that renders, and lists holding a null
\* item, which the inline normalization cannot read
FailBodies ==
  {Val("malformed", <<>>), Val("array", <<NestedItem>>), Val("array", <<NullItem>>),
   Obj("array", <<NestedItem, NullItem>>)}

FailStatuses == {200, 500}

InitFailure ==
  /\ InitPure
  /\ variant \in Variants
  /\ endpoint \in {Undefined, <<"e">>}
  /\ readerKey = Undefined
  /\ urlQ \in (IF variant = "urlsync" THEN {Undefined, <<"a", "a">>} ELSE {Undefined})
  /\ InitCommon

NextFailure ==
  \/ \E found \in BOOLEAN : BindSearchBox(NoOptions, found)
  \/ \E v \in FailInputValues : InputEvent(v)
  \/ SearchRoom /\ TimerFire
  \/ Tick
  \/ SearchRoom /\ KeydownEnter
  \/ \E outside \in BOOLEAN : DocumentClick(outside)
  \/ \E i \in 1..MaxInFlight, status \in FailStatuses, body \in FailBodies :
       Complete(i, status, body)
  \/ \E i \in 1..MaxInFlight, errorFirst \in BOOLEAN : NetworkFail(i, errorFirst)

SpecFailure == InitFailure /\ [][NextFailure]_vars

\* ------------------------------------------------------------------------
\* The binding with several requests in flight, answered in any order
\* ------------------------------------------------------------------------
OvertakingRoom == Len(xhrs) < MaxOvertaking

OvertakingInputValues == {<<"a", "a">>, <<"b", "b">>}

InitOvertaking ==
  /\ InitPure
  /\ variant \in BindVariants
  /\ endpoint = <<"e">>
  /\ readerKey = Undefined
  /\ urlQ = Undefined
  /\ InitCommon

NextOvertaking ==
  \/ BindSearchBox(NoOptions, TRUE)
  \/ \E v \in OvertakingInputValues : InputEvent(v)
  \/ OvertakingRoom /\ TimerFire
  \/ Tick
  \/ OvertakingRoom /\ KeydownEnter
  \/ \E i \in 1..MaxOvertaking, status \in BindStatuses, body \in BindBodies :
       Complete(i, status, body)

SpecOvertaking == InitOvertaking /\ [][NextOvertaking]_vars

\* ------------------------------------------------------------------------
\* configure
\* ------------------------------------------------------------------------
\* SemanticSearch.configure(o); a field of o is Undefined when not supplied
Configure(o) ==
  /\ Len(cfgLog) < MaxConfigure
  /\ endpoint' = ConfigureField(o.endpoint, endpoint)
  /\ readerKey' = ConfigureField(o.readerKey, readerKey)
  /\ cfgLog' = Append(cfgLog, o)
  /\ lastOp' = Op("configure", EmptyStr, 0, FALSE, Pending)
  /\ UNCHANGED <<variant, loadCfg, bindVars, inputValue, timerVars, burstVars, xhrs,
                 container, urlVars, pureVars>>

ConfigureOptions ==
  [endpoint : {Undefined, EmptyStr, <<"e">>, <<"f">>},
   readerKey : {Undefined, EmptyStr, <<"k">>, <<"l">>}]

InitConfigure ==
  /\ InitPure
  /\ variant = "plain"
  /\ endpoint \in {Undefined, EmptyStr, <<"e">>}
  /\ readerKey \in {Undefined, EmptyStr, <<"k">>}
  /\ urlQ = Undefined
  /\ InitCommon

NextConfigure == \E o \in ConfigureOptions : Configure(o)

SpecConfigure == InitConfigure /\ [][NextConfigure]_vars

\* ------------------------------------------------------------------------
\* Normalization and rendering on their own
\* ------------------------------------------------------------------------
\* where a field may sit: document.metadata, item.metadata, document, item
Slots == {"dm", "im", "d", "i"}

\* the value field f has at slot s under pattern p: absent, empty, or a
\* value that names the field and the slot
SlotValue(p, f, s) ==
  IF p[s] = "absent" THEN Undefined
  ELSE IF p[s] = "empty" THEN EmptyStr
  ELSE <<f, s>>

\* the item with the given objects present and the fields laid out by the
\* patterns t, u, x (title, url, excerpt)
MkItem(hasDoc, hasDocMeta, hasItemMeta, id, t, u, x) ==
  [kind |-> "object",
   document |->
     IF hasDoc
     THEN [exists |-> TRUE,
           metadata |-> IF hasDocMeta
                        THEN Meta(SlotValue(t, "title", "dm"), SlotValue(u, "url", "dm"),
                                  SlotValue(x, "excerpt", "dm"))
                        ELSE NoMeta,
           title |-> SlotValue(t, "title", "d"), url |-> SlotValue(u, "url", "d"),
           excerpt |-> SlotValue(x, "excerpt", "d"), id |-> id]
     ELSE NoDoc,
   metadata |-> IF hasItemMeta
                THEN Meta(SlotValue(t, "title", "im"), SlotValue(u, "url", "im"),
                          SlotValue(x, "excerpt", "im"))
                ELSE NoMeta,
   title |-> SlotValue(t, "title", "i"), url |-> SlotValue(u, "url", "i"),
   excerpt |-> SlotValue(x, "excerpt", "i")]

NormItems ==
  {MkItem(hasDoc, hasDocMeta, hasItemMeta, id, t, u, x) :
     hasDoc \in BOOLEAN, hasDocMeta \in BOOLEAN, hasItemMeta \in BOOLEAN,
     id \in {Undefined, <<"id">>},
     t \in [Slots -> {"absent", "empty", "set"}],
     u \in [Slots -> {"absent", "set"}],
     x \in {[s \in Slots |-> "absent"], [s \in Slots |-> "set"]}}
  \cup {NullItem, PrimItem}

\* the variant's normalization is applied to the item
Normalize ==
  /\ lastOp.op = "load"
  /\ normalized' = NormalizeIn(variant, item)
  /\ lastOp' = Op("normalize", EmptyStr, 0, FALSE, Pending)
  /\ UNCHANGED <<variant, configVars, bindVars, inputValue, timerVars, burstVars, xhrs,
                 container, urlVars, item>>

InitNormalize ==
  /\ variant \in Variants
  /\ endpoint = Undefined
  /\ readerKey = Undefined
  /\ urlQ = Undefined
  /\ item \in NormItems
  /\ normalized = NotNormalized
  /\ opts = NoOptions
  /\ InitCommon

NextNormalize == Normalize

SpecNormalize == InitNormalize /\ [][NextNormalize]_vars

Digits == <<"0", "1", "2", "3", "4", "5", "6", "7", "8", "9">>

\* an excerpt of n characters, each telling its place
ExcerptOf(n, off) == [i \in 1..n |-> Digits[((i + off) % 10) + 1]]

ExcerptLens == {0, 1, 90, 99, 100, 101, 150}

\* an item whose excerpt sits in document.metadata (nested) or flat
ExcerptItem(nested, e) ==
  IF nested
  THEN [NestedItem EXCEPT !.document.metadata.excerpt = e]
  ELSE [kind |-> "object", document |-> NoDoc, metadata |-> NoMeta,
        title |-> <<"T">>, url |-> <<"u">>, excerpt |-> e]

\* _renderResults(container, [item], opts)
Render ==
  /\ lastOp.op = "load"
  /\ normalized' = NormalizeIn(variant, item)
  /\ container' = RenderResults(variant, container, Val("array", <<item>>), opts).container
  /\ lastOp' = Op("render", EmptyStr, 0, FALSE, Pending)
  /\ UNCHANGED <<variant, configVars, bindVars, inputValue, timerVars, burstVars, xhrs,
                 urlVars, item>>

InitRender ==
  /\ variant \in Variants
  /\ endpoint = Undefined
  /\ readerKey = Undefined
  /\ urlQ = Undefined
  /\ item \in {ExcerptItem(nested, ExcerptOf(n, off)) :
                 nested \in BOOLEAN, n \in ExcerptLens, off \in {0, 3}}
  /\ normalized = NotNormalized
  /\ InitCommon
  /\ opts \in {[NoOptions EXCEPT !.showExcerpt = show] : show \in {"undefined", "true", "false"}}

NextRender == Render

SpecRender == InitRender /\ [][NextRender]_vars

\* ------------------------------------------------------------------------
\* Properties of search and configure
\* ------------------------------------------------------------------------
\* C4: a search called while no endpoint is configured rejects with the
\* configuration error and opens no request, for every query, every limit
\* and with or without a reader key.
C4_NoEndpointNoRequest ==
  [][(lastOp'.op = "search" /\ ~(endpoint' # Undefined /\ endpoint' # EmptyStr))
       => (xhrs' = xhrs /\ lastOp'.outcome = Rejected("config", 0))]_vars

C4_Witness ==
  /\ lastOp.op = "search"
  /\ endpoint = EmptyStr
  /\ readerKey = <<"k">>
  /\ lastOp.id = 5
  /\ lastOp.outcome.err = "config"
  /\ xhrs = <<>>

\* a 2xx response whose text parses
ParsedSuccess ==
  /\ lastOp.op = "complete"
  /\ lastOp.status \in 200..299
  /\ lastOp.body.kind # "malformed"

TruthyKinds == {"true", "num", "str", "array", "object"}

\* C5 as stated: a parsed 2xx response resolves to the results array of a
\* {results: [...]} body, to the body itself when it is a bare array, and
\* to an empty list for every other shape.
C5_AsStated ==
  ParsedSuccess =>
    lastOp.outcome =
      Resolved(IF lastOp.body.kind = "object" /\ lastOp.body.rkind = "array"
               THEN Val("array", lastOp.body.rarr)
               ELSE IF lastOp.body.kind = "array" THEN lastOp.body
               ELSE Val("array", <<>>))

\* what the code does in the case of C5: a parsed 2xx response resolves
\* to body.results when that is truthy, else to the body itself when the body is truthy (a bare array,
\* but also an object without truthy results, a non-zero number, a
\* non-empty string, true), else to an empty list (0, "", false); a null
\* body rejects with the parse error.
C5_ResolvedShape ==
  ParsedSuccess =>
    lastOp.outcome =
      (IF lastOp.body.kind = "null" THEN Rejected("parse", 0)
       ELSE IF lastOp.body.kind = "object" /\ lastOp.body.rkind \in TruthyKinds
       THEN Resolved(Val(lastOp.body.rkind, lastOp.body.rarr))
       ELSE IF lastOp.body.kind \in TruthyKinds THEN Resolved(lastOp.body)
       ELSE Resolved(Val("array", <<>>)))

C5_Witness ==
  /\ ParsedSuccess
  /\ lastOp.body = Obj("undefined", <<>>)
  /\ lastOp.outcome = Resolved(Obj("undefined", <<>>))

\* C10: a response with a status outside [200, 300) rejects with the HTTP
\* error carrying that status; a response with a status inside it resolves
\* or rejects with the parse error, and rejects with it when the text is
\* malformed.
C10_StatusDecides ==
  lastOp.op = "complete" =>
    IF lastOp.status < 200 \/ lastOp.status >= 300
    THEN lastOp.outcome = Rejected("http", lastOp.status)
    ELSE /\ lastOp.outcome.state = "resolved" \/ lastOp.outcome = Rejected("parse", 0)
         /\ lastOp.body.kind = "malformed" => lastOp.outcome = Rejected("parse", 0)

C10_Witness ==
  /\ lastOp.op = "complete"
  /\ lastOp.status = 300
  /\ lastOp.outcome = Rejected("http", 300)

\* the value of field f the configure calls of log leave, when the calls
\* that count are those giving a value for f: any value at all
\* (emptyCounts), or a non-empty one
RECURSIVE LastGiven(_, _, _, _)
LastGiven(log, f, atLoad, emptyCounts) ==
  IF log = <<>> THEN atLoad
  ELSE IF log[Len(log)][f] # Undefined /\ (emptyCounts \/ log[Len(log)][f] # EmptyStr)
  THEN log[Len(log)][f]
  ELSE LastGiven(SubSeq(log, 1, Len(log) - 1), f, atLoad, emptyCounts)

\* C9 as stated: each field equals the value of the most recent configure
\* call that supplied it, else its load-time value.
C9_AsStated ==
  /\ endpoint = LastGiven(cfgLog, "endpoint", loadCfg.endpoint, TRUE)
  /\ readerKey = LastGiven(cfgLog, "readerKey", loadCfg.readerKey, TRUE)

\* C9 amended: each field equals the value of the most recent configure
\* call that supplied a non-empty value for it, else its load-time value; a
\* call that supplies an empty value for a field leaves it unchanged.
C9_LastNonEmpty ==
  /\ endpoint = LastGiven(cfgLog, "endpoint", loadCfg.endpoint, FALSE)
  /\ readerKey = LastGiven(cfgLog, "readerKey", loadCfg.readerKey, FALSE)

C9_Witness ==
  /\ Len(cfgLog) = 2
  /\ cfgLog[1] = [endpoint |-> <<"f">>, readerKey |-> Undefined]
  /\ cfgLog[2] = [endpoint |-> Undefined, readerKey |-> <<"l">>]
  /\ endpoint = <<"f">>
  /\ readerKey = <<"l">>

\* ------------------------------------------------------------------------
\* Properties of normalization and rendering
\* ------------------------------------------------------------------------
\* what the item holds for field f at each place, Undefined where the place
\* does not exist
AtDocMeta(f) ==
  IF item.kind = "object" /\ item.document.exists /\ item.document.metadata.exists
  THEN item.document.metadata[f] ELSE Undefined

AtItemMeta(f) ==
  IF item.kind = "object" /\ item.metadata.exists THEN item.metadata[f] ELSE Undefined

AtDoc(f) ==
  IF item.kind = "object" /\ item.document.exists THEN item.document[f] ELSE Undefined

AtItem(f) == IF item.kind = "object" THEN item[f] ELSE Undefined

NonEmpty(x) == x # Undefined /\ x # <<>>

\* the first non-empty value of the documented chain, else the default
ChainValue(f) ==
  IF NonEmpty(AtDocMeta(f)) THEN AtDocMeta(f)
  ELSE IF NonEmpty(AtItemMeta(f)) THEN AtItemMeta(f)
  ELSE IF NonEmpty(AtDoc(f)) THEN AtDoc(f)
  ELSE IF NonEmpty(AtItem(f)) THEN AtItem(f)
  ELSE IF f = "title" THEN <<"U", "n", "t", "i", "t", "l", "e", "d">>
  ELSE IF f = "url" THEN <<"#">>
  ELSE <<>>

NowhereSet(f) ==
  ~NonEmpty(AtDocMeta(f)) /\ ~NonEmpty(AtItemMeta(f)) /\ ~NonEmpty(AtDoc(f))
    /\ ~NonEmpty(AtItem(f))

\* C6: _normalizeResult takes the title of document.metadata over a
\* top-level title, takes the top-level title when it is the only one, and
\* gives "Untitled", "#" and "" for a title, url and excerpt set nowhere.
C6_TitlePrecedence ==
  (lastOp.op = "normalize" /\ variant # "inline") =>
    /\ (NonEmpty(AtDocMeta("title")) /\ NonEmpty(AtItem("title")))
         => normalized.title = AtDocMeta("title")
    /\ (~NonEmpty(AtDocMeta("title")) /\ ~NonEmpty(AtItemMeta("title"))
          /\ ~NonEmpty(AtDoc("title")) /\ NonEmpty(AtItem("title")))
         => normalized.title = AtItem("title")
    /\ NowhereSet("title") => normalized.title = <<"U", "n", "t", "i", "t", "l", "e", "d">>
    /\ NowhereSet("url") => normalized.url = <<"#">>
    /\ NowhereSet("excerpt") => normalized.excerpt = <<>>

C6_Witness ==
  /\ lastOp.op = "normalize"
  /\ variant = "plain"
  /\ AtDocMeta("title") = <<"title", "dm">>
  /\ AtItem("title") = <<"title", "i">>
  /\ NonEmpty(AtDoc("title"))
  /\ normalized.title = <<"title", "dm">>

\* C7: for every item and every field, the normalized value is the first
\* non-empty value of document.metadata.f, item.metadata.f, document.f,
\* item.f, else the default, also when an earlier object exists without
\* that field.
C7_ChainPerField ==
  (lastOp.op = "normalize" /\ ~normalized.threw) =>
    \A f \in Fields : normalized[f] = ChainValue(f)

\* C8: a non-empty excerpt that is shown renders unmodified up to 100
\* characters, 100 included, and as its first 100 characters followed by
\* "..." beyond; with showExcerpt false or an empty excerpt no paragraph is
\* rendered.
C8_ExcerptTruncation ==
  lastOp.op = "render" =>
    LET e == normalized.excerpt
        para == container.html.items[1].excerpt
    IN /\ container.html.kind = "list"
       /\ Len(container.html.items) = 1
       /\ IF NonEmpty(e) /\ opts.showExcerpt # "false"
          THEN /\ Len(e) <= 100 => para = e
               /\ Len(e) > 100 => para = SubSeq(e, 1, 100) \o <<".", ".", ".">>
          ELSE para = Undefined

C8_Witness ==
  /\ lastOp.op = "render"
  /\ Len(normalized.excerpt) = 100
  /\ opts.showExcerpt = "undefined"
  /\ container.html.items[1].excerpt = normalized.excerpt

\* ------------------------------------------------------------------------
\* Properties of the debounced binding
\* ------------------------------------------------------------------------
Spaces(n) == [i \in 1..n |-> " "]

\* q is v without its leading and trailing spaces
IsTrimOf(q, v) ==
  /\ q = <<>> \/ (q[1] # " " /\ q[Len(q)] # " ")
  /\ \E i \in 0..Len(v), j \in 0..Len(v) : v = Spaces(i) \o q \o Spaces(j)

\* the last input event left a value whose trimmed length reaches minLength
LastInputQualifies ==
  /\ burstLen > 0
  /\ \E i \in 1..Len(inputValue), j \in 1..Len(inputValue) :
       /\ IsTrimOf(SubSeq(inputValue, i, j), inputValue)
       /\ j - i + 1 >= MinLength

\* C1: a burst of input events, each less than debounceMs after the one
\* before, whose last trimmed value reaches minLength, makes its timers
\* call search exactly once: never more than once, not before debounceMs
\* have passed since its last event, with the trimmed value of that event,
\* and the one call is made once no timer is left (unless Enter took it).
C1_DebounceOneSearch ==
  /\ burstCalls <= 1
  /\ lastOp.op = "timer" =>
       /\ burstCalls = 1
       /\ sinceInput = DebounceMs
       /\ IsTrimOf(lastOp.query, inputValue)
  /\ (LastInputQualifies /\ timers = {} /\ ~entered) => burstCalls = 1

C1_Witness ==
  /\ burstLen >= 2
  /\ burstCalls = 1
  /\ lastOp.op = "timer"
  /\ inputValue = <<" ", "a">>
  /\ lastOp.query = <<"a">>
  /\ lastOp.opened

HiddenAndEmpty == [html |-> [kind |-> "empty", text |-> <<>>, items |-> <<>>], display |-> "none"]

\* C2: an input event whose trimmed value is shorter than minLength opens
\* no request, leaves no timer pending, and leaves the container empty and
\* hidden.
C2_ShortInputClears ==
  [][(lastOp'.op = "input" /\ Len(lastOp'.query) < MinLength')
       => (xhrs' = xhrs /\ timers' = {} /\ container' = HiddenAndEmpty)]_vars

C2_Witness ==
  /\ lastOp.op = "input"
  /\ Len(lastOp.query) < MinLength
  /\ lastOp.id # 0
  /\ timers = {}
  /\ container = HiddenAndEmpty
  /\ xhrs # <<>>

\* C3: at most one debounce timer is live, it is the one the kept handle
\* names, and a timer that runs is the one scheduled last: a cancelled
\* timer's callback never runs.
C3_OneTimer ==
  /\ Cardinality(timers) <= 1
  /\ \A t \in timers : t.id = debounceTimer
  /\ lastOp.op = "timer" => lastOp.id = debounceTimer

C3_Witness ==
  /\ lastOp.op = "input"
  /\ lastOp.id # 0
  /\ Cardinality(timers) = 1
  /\ \E t \in timers : t.id # lastOp.id /\ t.id = debounceTimer

\* ------------------------------------------------------------------------
\* Properties of the failure paths
\* ------------------------------------------------------------------------
\* C11: a request that fails in the transport leaves the search promise
\* rejected with the network error, in whichever order the completion
\* (readyState 4, status 0) and the error event are delivered.
C11_NetworkErrorWins ==
  lastOp.op = "neterror" => lastOp.outcome = Rejected("network", 0)

\* a step in which a handler ran (time passing alone is not one)
HandlerStep == lastOp' # lastOp \/ xhrs' # xhrs

\* the inline normalization throws on a null item of the resolved list
ThrowsInRender(p) ==
  /\ variant = "inline"
  /\ p.state = "resolved"
  /\ p.value.kind = "array"
  /\ \E k \in 1..Len(p.value.arr) : p.value.arr[k].kind = "null"

\* the step ended a binding's search in failure: the search rejected at
\* once (no endpoint), the request failed (network, status, parse), or the
\* rendering of the resolved list threw
FailureStep ==
  /\ HandlerStep
  /\ \/ lastOp'.op \in {"timer", "enter", "bind"} /\ lastOp'.outcome.state = "rejected"
     \/ /\ lastOp'.op \in {"complete", "neterror"}
        /\ lastOp'.outcome.state = "rejected" \/ ThrowsInRender(lastOp'.outcome)

\* no request was opened and no timer was scheduled in the step
NothingIssued ==
  /\ Len(xhrs') <= Len(xhrs)
  /\ \A k \in 1..Len(xhrs') : \E j \in 1..Len(xhrs) : xhrs'[k] = xhrs[j]
  /\ timers' \subseteq timers

\* C12: every failure of a binding's search (no endpoint, network failure,
\* non-2xx status, malformed JSON, an exception in the rendering) leaves
\* the container visible with the one "Search failed" message, and opens
\* no request and schedules no timer.
C12_FailureShowsError ==
  [][FailureStep => (container' = FailedContainer /\ NothingIssued)]_vars

C12_Witness ==
  /\ lastOp.op = "complete"
  /\ ThrowsInRender(lastOp.outcome)
  /\ container = FailedContainer

\* ------------------------------------------------------------------------
\* Properties of the URL-sync variant
\* ------------------------------------------------------------------------
\* C13 as stated: after Enter is pressed while the input holds a query,
\* the q parameter equals the trimmed input value, and no history entry
\* was added.
C13_AsStated ==
  (lastOp.op \in {"enter", "enterShort"} /\ Truthy(Trim(inputValue)))
    => (GetQueryFromUrl = Trim(inputValue) /\ historyLen = 1)

\* C13 amended: an Enter press whose trimmed value has at least minLength
\* characters leaves the q parameter equal to that trimmed value; an Enter
\* press with a shorter value leaves the URL as it was; no step adds a
\* history entry.
C13_EnterWritesUrl ==
  [][/\ lastOp'.op = "enter" => (urlQ' = Trim(inputValue') /\ Len(urlQ') >= MinLength')
     /\ (lastOp'.op = "enterShort" /\ lastOp' # lastOp) => urlQ' = urlQ
     /\ historyLen' = historyLen]_vars

C13_Witness ==
  /\ lastOp.op = "enter"
  /\ inputValue = <<Space, "a", "a", Space>>
  /\ urlQ = <<"a", "a">>
  /\ historyLen = 1

\* the step bound the URL-sync variant while the URL carried a q parameter
BoundFromUrl == ~bound /\ bound' /\ variant = "urlsync" /\ Truthy(urlQ)

\* C14: binding the URL-sync variant with a non-empty q parameter copies
\* it into the input and, when it has at least minLength characters, calls
\* search for it once (one request with an endpoint, the configuration
\* error without); only an Enter press changes the URL.
C14_InitFromUrl ==
  [][/\ BoundFromUrl =>
          /\ inputValue' = urlQ
          /\ IF Len(urlQ) >= MinLength'
             THEN /\ lastOp'.query = urlQ
                  /\ IF Truthy(endpoint)
                     THEN xhrs' = Append(xhrs, Request(urlQ, LimitOf(opts'), "init"))
                     ELSE xhrs' = xhrs /\ lastOp'.outcome = Rejected("config", 0)
             ELSE xhrs' = xhrs /\ container' = container
     /\ urlQ' # urlQ => lastOp'.op = "enter"]_vars

C14_Witness ==
  /\ lastOp.op = "bind"
  /\ lastOp.opened
  /\ urlQ = <<"a", "a", Space>>
  /\ inputValue = urlQ
  /\ Len(xhrs) = 1
  /\ xhrs[1].query = urlQ
  /\ xhrs[1].origin = "init"

\* ------------------------------------------------------------------------
\* Properties of requests in flight
\* ------------------------------------------------------------------------
\* what a response leaves in the container: the list, the no-results
\* message, or the error message
ShownFor(status, body) ==
  IF status < 200 \/ status >= 300 THEN "error"
  ELSE IF body.kind = "array" /\ body.arr = <<>> THEN "noresults"
  ELSE "list"

\* C15: no request-generation guard: the completion of every request of
\* the binding writes the container from its own response, whether or not
\* a later search was dispatched since, so the response of an older search
\* that arrives last overwrites what the newer one showed.
C15_EveryCompletionWrites ==
  [][(HandlerStep /\ lastOp'.op = "complete")
       => (container'.html.kind = ShownFor(lastOp'.status, lastOp'.body)
           /\ container'.display = "block")]_vars

\* the older search "aa" answered last, after "bb" was typed, dispatched by
\* its timer and answered: the container shows the list for "aa"
C15_Witness ==
  /\ lastOp.op = "complete"
  /\ lastOp.query = <<"a", "a">>
  /\ inputValue = <<"b", "b">>
  /\ burstCalls = 1
  /\ timers = {}
  /\ xhrs = <<>>
  /\ container.html.kind = "list"
  /\ container.display = "block"

\* ------------------------------------------------------------------------
\* Properties of the Enter key
\* ------------------------------------------------------------------------
\* C16: an Enter press that finds a debounce timer pending cancels it and
\* calls search at once for the trimmed input value; until the next input
\* event no timer is pending and no timer callback runs, so the burst gets
\* the search of Enter and none from the debounce.
C16_EnterCancelsDebounce ==
  [][/\ (lastOp'.op \in {"enter", "enterShort"} /\ timers # {} /\ inputValue' = inputValue
           /\ sinceInput' = sinceInput)
          => /\ lastOp'.op = "enter"
             /\ lastOp'.query = Trim(inputValue)
             /\ timers' = {}
             /\ burstCalls' = burstCalls
             /\ Truthy(endpoint) =>
                  xhrs' = Append(xhrs, Request(Trim(inputValue), LimitOf(opts), "enter"))
     /\ entered' => (timers' = {} /\ lastOp'.op # "timer")]_vars

C16_Witness ==
  /\ lastOp.op = "enter"
  /\ lastOp.opened
  /\ burstLen = 2
  /\ burstCalls = 0
  /\ debounceTimer # 0
  /\ sinceInput = DebounceMs
  /\ timers = {}

\* ------------------------------------------------------------------------
\* Liveness of the debounced search
\* ------------------------------------------------------------------------
\* an input event has left a value whose trimmed length reaches minLength
QualifyingInput == bound /\ burstLen > 0 /\ Len(Trim(inputValue)) >= MinLength

\* a search for the input's value was called since the last input event
IssuedSinceInput == burstCalls >= 1 \/ entered

\* the search of a qualifying input is still to come, or to be answered:
\* its timer is pending, or its request is in flight
PendingSearch ==
  /\ QualifyingInput
  /\ \/ timers # {}
     \/ IssuedSinceInput /\ \E k \in 1..Len(xhrs) : xhrs[k].query = Trim(inputValue)

\* that search has ended and the container is visible with its outcome:
\* the list or the no-results message of its response, or the error
ShownSinceInput ==
  /\ IssuedSinceInput
  /\ container.display = "block"
  /\ \/ /\ lastOp.op = "complete"
        /\ lastOp.query = Trim(inputValue)
        /\ container.html.kind = ShownFor(lastOp.status, lastOp.body)
     \/ /\ lastOp.op = "neterror"
        /\ lastOp.query = Trim(inputValue)
        /\ container = FailedContainer
     \/ /\ lastOp.op \in {"timer", "enter"}
        /\ lastOp.outcome.state = "rejected"
        /\ container = FailedContainer

\* C17: unless input events keep coming, a qualifying value left by an
\* input event, whose search is still pending, leads to that search being
\* called and to the container being visible with its results, no-results
\* message or error (or to the value being replaced by one that does not
\* qualify).
C17_SearchEventuallyShown ==
  ([]<><<InputStep>>_vars) \/ (PendingSearch ~> (ShownSinceInput \/ ~QualifyingInput))

C17_Witness ==
  /\ QualifyingInput
  /\ ShownSinceInput
  /\ lastOp.op = "complete"
  /\ burstCalls = 1
  /\ ~entered
  /\ container.html.kind = "noresults"

\* ------------------------------------------------------------------------
\* Properties of the queries sent
\* ------------------------------------------------------------------------
\* the last handler called search (it opened a request or was rejected)
CalledSearch ==
  /\ lastOp.op \in {"timer", "enter", "bind"}
  /\ lastOp.opened \/ lastOp.outcome.state = "rejected"

TrimmedAndLongEnough(q) == q = Trim(q) /\ Len(q) >= MinLength

\* C18: every search a binding calls, from the debounce timer, the Enter
\* key or the initial load from the URL, carries a query that is trimmed
\* and has at least minLength characters.
C18_QueriesTrimmed ==
  /\ CalledSearch => TrimmedAndLongEnough(lastOp.query)
  /\ \A k \in 1..Len(xhrs) : TrimmedAndLongEnough(xhrs[k].query)

\* C19: once a short input or a click outside has hidden the container,
\* the answer to a request that was already in flight (a response or a
\* network failure) leaves it hidden and does not refill it.
C19_HiddenStaysHidden ==
  [][(container.display = "none" /\ HandlerStep /\ lastOp'.op \in {"complete", "neterror"})
       => (container'.display = "none" /\ container'.html = container.html)]_vars

\* ------------------------------------------------------------------------
\* Properties of the promise
\* ------------------------------------------------------------------------
\* C20: of the callbacks the transport delivers for one request exactly one
\* settles the promise, so the container is written once for it: with the
\* error message when the promise is rejected, with the results or the
\* no-results message when it is resolved.
C20_SettlesOnce ==
  lastOp.op \in {"complete", "neterror"} =>
    /\ lastOp.id = 1
    /\ lastOp.outcome.state # "pending"
    /\ lastOp.outcome.state = "rejected" => container = FailedContainer
    /\ (lastOp.outcome.state = "resolved" /\ ~ThrowsInRender(lastOp.outcome))
         => container.html.kind \in {"list", "noresults"}

C20_Witness ==
  /\ lastOp.op = "neterror"
  /\ lastOp.id = 1
  /\ lastOp.outcome = Rejected("http", 0)
  /\ container = FailedContainer

====
